---- MODULE Spec2Model ----
(***************************************************************************)
(* JKPAY payment bridge (src/main.py): the in-memory order list, the two   *)
(* gateway callbacks /confirm_url and /result_url, and /generate_payment.  *)
(* The server handles requests in threads, so every handler is a process   *)
(* whose steps are the places where it reads or writes the shared list,    *)
(* the order dicts, or makes an outbound call.                             *)
(***************************************************************************)
EXTENDS Integers, Sequences, FiniteSets, TLC

\* ---------------------------------------------------------------- bounds
MaxOrders == 2
MaxReq == 3
Workers == {1, 2}

\* ------------------------------------------------------------ JSON values
\* Every JSON value of a payload is a string token; NoneVal is Python's None
\* (also what .get returns for an absent key), EmptyStr the empty string,
\* AbsentKey marks a key an order dict does not have.
NoneVal == "<None>"
EmptyStr == ""
AbsentKey == "<absent>"

PyFalsy_OnlyNone(v) == v = NoneVal
\* not x, for the identifier of a callback payload
PyFalsy(v) == v \in {NoneVal, EmptyStr}

\* status == 0, for a status that is a JSON number or None
StatusIsZero_NoCheck(status) == TRUE
StatusIsZero(status) == status = "0"

JKO_UAT_IPS ==
    {"125.227.158.49", "220.133.77.56", "59.124.107.103", "175.99.130.66", "175.99.130.82"}

check_ip_whitelist_Open(client_ip) == TRUE
\* client_ip not in JKO_UAT_IPS -> 403
check_ip_whitelist(client_ip) == client_ip \in JKO_UAT_IPS

\* the identifiers uuid4/time produce, in the order they are produced
OrderIds == <<"ORDER_a", "ORDER_b", "ORDER_c", "ORDER_d", "ORDER_e">>
uuid4(n) == OrderIds[n]

\* ------------------------------------------------------------ input sets
ALLOWED_IP == "125.227.158.49"
OTHER_IP == "203.0.113.7"
UNKNOWN_ID == "ORDER_x"
CallbackIds == {uuid4(n) : n \in 1..MaxOrders} \cup {UNKNOWN_ID}
Body(pid, status, tradeNo) ==
    [shape |-> "obj", pid |-> pid, status |-> status, tradeNo |-> tradeNo]
BadBody == [shape |-> "bad", pid |-> NoneVal, status |-> NoneVal, tradeNo |-> NoneVal]

\* the calls to /confirm_url: caller address and JSON body
ConfirmCalls ==
    {<<ALLOWED_IP, Body(p, NoneVal, NoneVal)>> : p \in CallbackIds \cup {NoneVal, EmptyStr}}
        \cup {<<ALLOWED_IP, BadBody>>, <<OTHER_IP, Body(uuid4(1), NoneVal, NoneVal)>>}

\* the calls to /result_url
ResultCalls ==
    {<<ALLOWED_IP, Body(p, st[1], st[2])>> :
        p \in CallbackIds,
        st \in {<<"0", NoneVal>>, <<"0", "T1">>, <<"1", "T1">>, <<"2", NoneVal>>,
                <<NoneVal, "T1">>}}
        \cup {<<ALLOWED_IP, Body(p, "0", "T1")>> : p \in {NoneVal, EmptyStr}}
        \cup {<<ALLOWED_IP, BadBody>>, <<OTHER_IP, Body(uuid4(1), "0", "T1")>>,
              <<OTHER_IP, BadBody>>}

\* ------------------------------------------------- /generate_payment inputs
\* A field of the order request: absent, a JSON number, or a JSON string.
Absent == [t |-> "absent", n |-> 0, s |-> ""]
Num(n) == [t |-> "num", n |-> n, s |-> ""]
Str(s) == [t |-> "str", n |-> 0, s |-> s]

\* the decimal strings of the input sets, as int() reads them
IntLiterals == ("7" :> 7) @@ ("2" :> 2) @@ ("0" :> 0) @@ ("-4" :> -4)

\* not order_data[field], for a field that is present
PyTruthy(v) == IF v.t = "num" THEN v.n # 0 ELSE v.s # ""

\* int(x) returns, or raises ValueError
PyIntOk(v) == v.t = "num" \/ v.s \in DOMAIN IntLiterals
PyInt(v) == IF v.t = "num" THEN v.n ELSE IntLiterals[v.s]

MakeOrder(total, qty, name, email, phone, shipping, payment, storeInfo, city, district, address, client_id) ==
    [shape |-> "obj", totalAmount |-> total, quantity |-> qty, name |-> name,
     email |-> email, phone |-> phone, shipping |-> shipping, payment |-> payment,
     storeInfo |-> storeInfo, city |-> city, district |-> district, address |-> address,
     platform_order_id |-> client_id, paymentMethod |-> AbsentKey, tradeNo |-> AbsentKey]

X == Str("x")
OrderHome ==
    MakeOrder(Num(100), Num(3), X, X, X, Str("home"), Str("jkopay"), Absent, X, X, X, NoneVal)
OrderNoAddress ==
    MakeOrder(Num(100), Num(3), X, X, X, Str("7-11"), Str("jkopay"), X, Absent, Absent,
              Absent, NoneVal)
BadOrder == [OrderHome EXCEPT !.shape = "bad"]

\* a request whose body itself carries a platform_order_id (that of the first order)
OrderClientId == [OrderHome EXCEPT !.platform_order_id = "ORDER_a"]

\* a request whose quantity is no integer
OrderUnparseable == [OrderHome EXCEPT !.quantity = Str("x")]

\* the requests of the concurrent specification: one that is accepted, and one for
\* each way a request fails before the gateway is called
GenBodies == {OrderClientId, OrderNoAddress, OrderUnparseable, BadOrder}

\* the requests of the validation specification
TotalAmounts ==
    {Absent, Num(0), Num(-5), Num(100), Num(1000000), Num(1000001), Str("abc"), Str("7")}
Quantities == {Absent, Num(0), Num(3), Num(-1), Str("x"), Str("2")}
Presence == {Absent, X}
Texts == {Absent, Str(""), X}
Shippings == {Absent, Str("7-11"), Str("home")}
Payments == {Absent, Str("jkopay"), Str("credit")}
GenBodiesAll ==
    {MakeOrder(t, q, n, X, p, s, pay, si, c, d, a, NoneVal) :
        t \in TotalAmounts, q \in Quantities, n \in Texts, p \in Presence,
        s \in Shippings, pay \in Payments, si \in Presence, c \in Presence,
        d \in Presence, a \in Texts}
    \cup {[OrderHome EXCEPT !.email = Absent], BadOrder}
GatewayOutcomes == {"raise", "http_error", "not_json", "rejected", "no_url", "ok"}

\* the requests of the price specification: totalAmount and quantity vary
MaxAmount == 7
MaxQuantity == 4
PriceTotals == {Num(n) : n \in 1..MaxAmount} \cup {Num(100), Num(1000000), Str("7")}
PriceQuantities == {Num(n) : n \in 1..MaxQuantity} \cup {Str("2")}

\* the messages of the signing specification: up to MaxFields items, in any
\* insertion order, canonical fields and others, each with one of its values
MaxFields == 3
SignKeys == {"store_id", "currency", "total_price", "products", "confirm_url"}

\* ------------------------------------------------------- the gateway message
\* A Python value of the message: a number, a string, a bool, a list of values,
\* or a dict, which is the sequence of its items in insertion order.
JNone == [t |-> "null", n |-> 0, s |-> "", l |-> <<>>]
JNum(n) == [t |-> "num", n |-> n, s |-> "", l |-> <<>>]
JStr(s) == [t |-> "str", n |-> 0, s |-> s, l |-> <<>>]
JBool(b) == [t |-> "bool", n |-> IF b THEN 1 ELSE 0, s |-> "", l |-> <<>>]
JList(l) == [t |-> "list", n |-> 0, s |-> "", l |-> l]
JDict(items) == [t |-> "dict", n |-> 0, s |-> "", l |-> items]
Item(k, v) == [k |-> k, v |-> v]

\* field in payload, payload[field]
Has(payload, field) == \E i \in DOMAIN payload.l : payload.l[i].k = field
Get(payload, field) == payload.l[CHOOSE i \in DOMAIN payload.l : payload.l[i].k = field].v

\* json.dumps(value, separators=(',', ':'), ensure_ascii=False), as the sequence
\* of the tokens of its output
RECURSIVE json_dumps(_)
RECURSIVE json_dumps_join(_, _)
json_dumps_join(l, isdict) ==
    IF l = <<>> THEN <<>>
    ELSE (IF isdict THEN <<"\"", Head(l).k, "\"", ":">> \o json_dumps(Head(l).v)
          ELSE json_dumps(Head(l)))
         \o (IF Tail(l) = <<>> THEN <<>> ELSE <<",">> \o json_dumps_join(Tail(l), isdict))
json_dumps(v) ==
    CASE v.t = "num" -> <<ToString(v.n)>>
      [] v.t = "str" -> <<"\"", v.s, "\"">>
      [] v.t = "bool" -> <<IF v.n = 1 THEN "true" ELSE "false">>
      [] v.t = "null" -> <<"null">>
      [] v.t = "list" -> <<"[">> \o json_dumps_join(v.l, FALSE) \o <<"]">>
      [] v.t = "dict" -> <<"{">> \o json_dumps_join(v.l, TRUE) \o <<"}">>

ordered_fields ==
    <<"store_id", "platform_order_id", "currency", "total_price", "final_price",
      "unredeem", "valid_time", "payment_type", "escrow", "products">>

ordered_payload_Insertion(payload) == payload
\* for field in ordered_fields: if field in payload: ordered_payload[field] = payload[field]
ordered_payload(payload) ==
    LET present == SelectSeq(ordered_fields, LAMBDA field : Has(payload, field))
    IN  JDict([i \in DOMAIN present |-> Item(present[i], Get(payload, present[i]))])

\* hmac.new(secret_key, payload_str, sha256).hexdigest(): the digest stands for
\* the key and the bytes it was computed from
hmac_sha256(secret_key, payload_str) == [key |-> secret_key, str |-> payload_str]
NoDigest == [key |-> "", str |-> <<>>]

payload_str(payload) ==
    IF payload.t = "dict" THEN json_dumps(ordered_payload(payload)) ELSE <<payload.s>>
generate_signature(payload, secret_key) == hmac_sha256(secret_key, payload_str(payload))

SignValues(k) ==
    CASE k = "store_id" -> {JStr("STORE_ID")}
      [] k = "currency" -> {JStr("TWD"), JStr("USD")}
      [] k = "total_price" -> {JNum(100), JStr("100")}
      [] k = "products" -> {JList(<<>>), JList(<<JDict(<<Item("unit_price", JNum(100))>>)>>)}
      [] k = "confirm_url" -> {JStr("URL_1"), JStr("URL_2")}
SignItems == UNION {{Item(k, v) : v \in SignValues(k)} : k \in SignKeys}
SignMessages ==
    {JDict(l) : l \in {q \in UNION {[1..n -> SignItems] : n \in 0..MaxFields} :
                        \A i, j \in DOMAIN q : q[i].k = q[j].k => i = j}}

JKO_PAY_STORE_ID == "STORE_ID"
JKO_PAY_SECRET_KEY == "SECRET_KEY"

\* price = base_price + (1 if i == quantity - 1 else 0) * remainder, i from 0
price_NoRemainder(i, quantity, base_price, remainder) == base_price
price(i, quantity, base_price, remainder) ==
    base_price + (IF i = quantity - 1 THEN 1 ELSE 0) * remainder

product(unit_price) ==
    JDict(<<Item("name", JStr("PRODUCT_NAME")), Item("unit_count", JNum(1)),
            Item("unit_price", JNum(unit_price)), Item("unit_final_price", JNum(unit_price)),
            Item("img", JStr("IMG_URL"))>>)

\* the loop over range(quantity)
products(total_amount, quantity) ==
    LET base_price == total_amount \div quantity
        remainder == total_amount % quantity
    IN  [j \in 1..quantity |-> product(price(j - 1, quantity, base_price, remainder))]

\* the message sent to the gateway
data(platform_order_id, total_amount, quantity) ==
    JDict(<<Item("store_id", JStr(JKO_PAY_STORE_ID)),
            Item("platform_order_id", JStr(platform_order_id)),
            Item("currency", JStr("TWD")),
            Item("total_price", JNum(total_amount)),
            Item("final_price", JNum(total_amount)),
            Item("unredeem", JNum(total_amount)),
            Item("valid_time", JStr("VALID_TIME")),
            Item("confirm_url", JStr("BASE_URL/confirm_url")),
            Item("result_url", JStr("BASE_URL/result_url")),
            Item("result_display_url", JStr("BASE_URL/result_display_url")),
            Item("payment_type", JStr("onetime")),
            Item("escrow", JBool(FALSE)),
            Item("products", JList(products(total_amount, quantity)))>>)

VARIABLES
    orders,         \* the global list `orders`: references to order dicts
    heap,           \* the order dicts ever created, by reference
    sink,           \* the calls made to GOOGLE_SCRIPT_URL, in order
    gateway_calls,  \* number of calls made to JKO_PAY_ENTRY_URL
    uuid_ctr,       \* number of identifiers generated
    pc,             \* where each handler thread stands
    req,            \* the request each thread is handling (or handled last)
    loc,            \* its local variables
    resp,           \* the response it returned
    nreq,           \* requests begun
    sign_payload,   \* generate_signature applied on its own: its argument
    sign_digest     \* and its result

vars ==
    <<orders, heap, sink, gateway_calls, uuid_ctr, pc, req, loc, resp, nreq,
      sign_payload, sign_digest>>
signing == <<sign_payload, sign_digest>>
shared == <<orders, heap, sink, gateway_calls, uuid_ctr>>

NoReq == [route |-> "none", ip |-> NoneVal, body |-> BadBody, rid |-> 0]
NoResp == [status |-> 0, body |-> "none", detail |-> <<>>]
Loc0 == [idx |-> 0, order_data |-> 0, filt |-> <<>>, fidx |-> 0,
         gen_id |-> NoneVal, payment_url |-> NoneVal, data |-> JNone,
         signature |-> NoDigest, response |-> NoneVal]
R(status, body) == [status |-> status, body |-> body, detail |-> <<>>]

\* the identifiers of the entries of the list, in list order
StoreIds == [i \in 1..Len(orders) |-> heap[orders[i]].platform_order_id]
InStore(pid) == \E i \in 1..Len(orders) : heap[orders[i]].platform_order_id = pid

Init ==
    /\ orders = <<>>
    /\ heap = <<>>
    /\ sink = <<>>
    /\ gateway_calls = 0
    /\ uuid_ctr = 0
    /\ pc = [w \in Workers |-> "idle"]
    /\ req = [w \in Workers |-> NoReq]
    /\ loc = [w \in Workers |-> Loc0]
    /\ resp = [w \in Workers |-> NoResp]
    /\ nreq = 0
    /\ sign_payload = JNone
    /\ sign_digest = NoDigest

\* a handler returns: the response is recorded and the thread is free again
Return(w, r) ==
    /\ pc' = [pc EXCEPT ![w] = "done"]
    /\ resp' = [resp EXCEPT ![w] = r]
    /\ loc' = [loc EXCEPT ![w] = Loc0]

Goto(w, label, newloc) ==
    /\ pc' = [pc EXCEPT ![w] = label]
    /\ loc' = [loc EXCEPT ![w] = newloc]
    /\ UNCHANGED resp

\* a free thread takes the next request; rid numbers the requests as they arrive
Accept(w, route, ip, body) ==
    /\ pc[w] \in {"idle", "done"}
    /\ nreq < MaxReq
    /\ nreq' = nreq + 1
    /\ req' = [req EXCEPT ![w] = [route |-> route, ip |-> ip, body |-> body,
                                  rid |-> nreq + 1]]

\* order["platform_order_id"] == platform_order_id
Matches_Any(order, platform_order_id) == TRUE
Matches(order, platform_order_id) == order.platform_order_id = platform_order_id

\* -------------------------------------------------------------- /confirm_url
confirm_url_begin(w, ip, body) ==
    /\ Accept(w, "confirm_url", ip, body)
    /\ IF ~check_ip_whitelist(ip) THEN Return(w, R(403, "forbidden"))
       ELSE IF body.shape # "obj" THEN Return(w, R(500, "invalid"))
       ELSE IF PyFalsy(body.pid) THEN Return(w, R(400, "invalid"))
       ELSE /\ pc' = [pc EXCEPT ![w] = "confirm_scan"]
            /\ loc' = [loc EXCEPT ![w] = Loc0]
            /\ resp' = [resp EXCEPT ![w] = NoResp]
    /\ UNCHANGED shared
    /\ UNCHANGED signing

\* one iteration of `for order in orders`
confirm_url_scan(w) ==
    /\ pc[w] = "confirm_scan"
    /\ LET i == loc[w].idx IN
       IF i >= Len(orders) THEN Return(w, R(404, "invalid"))
       ELSE IF Matches(heap[orders[i + 1]], req[w].body.pid) THEN Return(w, R(200, "valid"))
       ELSE Goto(w, "confirm_scan", [loc[w] EXCEPT !.idx = i + 1])
    /\ UNCHANGED <<shared, req, nreq>>
    /\ UNCHANGED signing

\* --------------------------------------------------------------- /result_url
result_url_begin(w, ip, body) ==
    /\ Accept(w, "result_url", ip, body)
    /\ IF ~check_ip_whitelist(ip) THEN Return(w, R(403, "forbidden"))
       ELSE IF body.shape # "obj" THEN Return(w, R(500, "server_error"))
       ELSE IF PyFalsy(body.pid) THEN Return(w, R(400, "missing_id"))
       ELSE /\ pc' = [pc EXCEPT ![w] = "result_scan"]
            /\ loc' = [loc EXCEPT ![w] = Loc0]
            /\ resp' = [resp EXCEPT ![w] = NoResp]
    /\ UNCHANGED shared
    /\ UNCHANGED signing

\* one iteration of `for order in orders`, then the status test
result_url_scan(w) ==
    /\ pc[w] = "result_scan"
    /\ LET i == loc[w].idx IN
       IF i >= Len(orders) THEN Return(w, R(404, "not_found"))
       ELSE IF Matches(heap[orders[i + 1]], req[w].body.pid)
            THEN IF StatusIsZero(req[w].body.status)
                 THEN Goto(w, "attach_pm", [loc[w] EXCEPT !.order_data = orders[i + 1]])
                 ELSE Return(w, R(400, "confirm_failed"))
       ELSE Goto(w, "result_scan", [loc[w] EXCEPT !.idx = i + 1])
    /\ UNCHANGED <<shared, req, nreq>>
    /\ UNCHANGED signing

\* order_data["paymentMethod"] = "jkopay"
result_url_attach_pm(w) ==
    /\ pc[w] = "attach_pm"
    /\ heap' = [heap EXCEPT ![loc[w].order_data].paymentMethod = "jkopay"]
    /\ Goto(w, "attach_tn", loc[w])
    /\ UNCHANGED <<orders, sink, gateway_calls, uuid_ctr, req, nreq>>
    /\ UNCHANGED signing

\* order_data["tradeNo"] = trade_no
result_url_attach_tn(w) ==
    /\ pc[w] = "attach_tn"
    /\ heap' = [heap EXCEPT ![loc[w].order_data].tradeNo = req[w].body.tradeNo]
    /\ Goto(w, "forward", loc[w])
    /\ UNCHANGED <<orders, sink, gateway_calls, uuid_ctr, req, nreq>>
    /\ UNCHANGED signing

result_url_forward_Skip(w, ok) ==
    /\ pc[w] = "forward"
    /\ Goto(w, "filter", [loc[w] EXCEPT !.fidx = 0, !.filt = <<>>])
    /\ UNCHANGED <<shared, req, nreq>>
    /\ UNCHANGED signing

\* requests.post(GOOGLE_SCRIPT_URL, data=order_data), which returns or raises
result_url_forward(w, ok) ==
    /\ pc[w] = "forward"
    /\ sink' = Append(sink, [rid |-> req[w].rid, ip |-> req[w].ip,
                             order |-> heap[loc[w].order_data], ok |-> ok])
    /\ Goto(w, "filter", [loc[w] EXCEPT !.fidx = 0, !.filt = <<>>])
    /\ UNCHANGED <<orders, heap, gateway_calls, uuid_ctr, req, nreq>>
    /\ UNCHANGED signing

\* one iteration of [order for order in orders if order[...] != platform_order_id]
result_url_filter(w) ==
    /\ pc[w] = "filter"
    /\ LET i == loc[w].fidx IN
       IF i >= Len(orders) THEN Goto(w, "replace", loc[w])
       ELSE IF Matches(heap[orders[i + 1]], req[w].body.pid)
            THEN Goto(w, "filter", [loc[w] EXCEPT !.fidx = i + 1])
            ELSE Goto(w, "filter", [loc[w] EXCEPT !.fidx = i + 1,
                                                  !.filt = Append(@, orders[i + 1])])
    /\ UNCHANGED <<shared, req, nreq>>
    /\ UNCHANGED signing

result_url_replace_Keep(w) ==
    /\ pc[w] = "replace"
    /\ Return(w, R(200, "success"))
    /\ UNCHANGED <<shared, req, nreq>>
    /\ UNCHANGED signing

\* orders[:] = <the filtered list>; save_orders(orders); return success
result_url_replace(w) ==
    /\ pc[w] = "replace"
    /\ orders' = loc[w].filt
    /\ Return(w, R(200, "success"))
    /\ UNCHANGED <<heap, sink, gateway_calls, uuid_ctr, req, nreq>>
    /\ UNCHANGED signing

\* ---------------------------------------------------------- /generate_payment
REQUIRED_711 ==
    <<"totalAmount", "quantity", "name", "email", "phone", "shipping", "payment",
      "storeInfo", "address">>
REQUIRED_OTHER ==
    <<"totalAmount", "quantity", "name", "email", "phone", "shipping", "payment",
      "city", "district", "address">>
MAX_TOTAL == 1000000

required_fields(order_data) ==
    IF order_data.shipping = Str("7-11") THEN REQUIRED_711 ELSE REQUIRED_OTHER

\* field not in order_data or not order_data[field], for one field
IsMissing(order_data, field) ==
    order_data[field].t = "absent" \/ ~PyTruthy(order_data[field])

missing_fields_First(order_data) ==
    LET all == SelectSeq(required_fields(order_data),
                         LAMBDA field : IsMissing(order_data, field))
    IN  IF all = <<>> THEN <<>> ELSE <<Head(all)>>

\* [field for field in required_fields if field not in order_data or not order_data[field]]
missing_fields(order_data) ==
    SelectSeq(required_fields(order_data), LAMBDA field : IsMissing(order_data, field))

Pass == [status |-> 0, body |-> "pass", detail |-> <<>>]

generate_payment_except_Reraise(e) == [status |-> 0, body |-> "unhandled", detail |-> <<e>>]
\* except Exception as e: return jsonify({"error": f"... {str(e)}"}), 500
generate_payment_except(e) == [status |-> 500, body |-> "server_error", detail |-> <<e>>]

\* everything generate_payment does before it builds the gateway message:
\* the response it returns early, or Pass
Validate(order_data) ==
    IF order_data.shape # "obj"
    THEN generate_payment_except("AttributeError")
    ELSE IF missing_fields(order_data) # <<>>
    THEN [status |-> 400, body |-> "missing_fields", detail |-> missing_fields(order_data)]
    ELSE IF ~PyIntOk(order_data.totalAmount) \/ ~PyIntOk(order_data.quantity)
    THEN generate_payment_except("ValueError")
    ELSE IF PyInt(order_data.totalAmount) <= 0 \/ PyInt(order_data.quantity) <= 0
    THEN R(400, "not_positive")
    ELSE IF PyInt(order_data.totalAmount) > MAX_TOTAL
    THEN R(400, "too_large")
    ELSE IF order_data.payment # Str("jkopay")
    THEN [status |-> 400, body |-> "unsupported_payment",
          detail |-> <<order_data.payment.s>>]
    ELSE Pass

\* {**order_data, "platform_order_id": ..., "payment_url": ...}
order_to_save(order_data, platform_order_id, payment_url) ==
    ("platform_order_id" :> platform_order_id) @@ ("payment_url" :> payment_url)
        @@ order_data

\* validation, then the message is built, signed and posted to JKO_PAY_ENTRY_URL
generate_payment_begin(w, body) ==
    /\ Accept(w, "generate_payment", NoneVal, body)
    /\ IF Validate(body) # Pass
       THEN /\ Return(w, Validate(body))
            /\ UNCHANGED shared
       ELSE /\ uuid_ctr < MaxOrders
            /\ uuid_ctr' = uuid_ctr + 1
            /\ gateway_calls' = gateway_calls + 1
            /\ pc' = [pc EXCEPT ![w] = "await"]
            /\ LET platform_order_id == uuid4(uuid_ctr + 1)
                   message == data(platform_order_id, PyInt(body.totalAmount),
                                   PyInt(body.quantity))
               IN  loc' = [loc EXCEPT ![w] =
                            [Loc0 EXCEPT !.gen_id = platform_order_id,
                                         !.data = message,
                                         !.signature =
                                            generate_signature(message, JKO_PAY_SECRET_KEY)]]
            /\ resp' = [resp EXCEPT ![w] = NoResp]
            /\ UNCHANGED <<orders, heap, sink>>
    /\ UNCHANGED signing

\* result["result_object"]["payment_url"] of the gateway's reply for an order
PaymentUrls ==
    ("ORDER_a" :> "URL_a") @@ ("ORDER_b" :> "URL_b") @@ ("ORDER_c" :> "URL_c")
        @@ ("ORDER_d" :> "URL_d") @@ ("ORDER_e" :> "URL_e")

\* requests.post(JKO_PAY_ENTRY_URL, ...) returns or raises
generate_payment_response(w, outcome) ==
    /\ pc[w] = "await"
    /\ Goto(w, "handle", [loc[w] EXCEPT !.response = outcome])
    /\ UNCHANGED <<shared, req, nreq>>
    /\ UNCHANGED signing

generate_payment_handle_StoreRejected(w) ==
    /\ pc[w] = "handle"
    /\ IF loc[w].response \in {"ok", "rejected"}
       THEN Goto(w, "insert", [loc[w] EXCEPT !.payment_url = PaymentUrls[loc[w].gen_id]])
       ELSE Return(w, R(500, "gateway_status"))
    /\ UNCHANGED <<shared, req, nreq>>
    /\ UNCHANGED signing

\* the status code, the JSON body and the result code of the reply are interpreted
generate_payment_handle(w) ==
    /\ pc[w] = "handle"
    /\ CASE loc[w].response = "ok" ->
                Goto(w, "insert", [loc[w] EXCEPT !.payment_url = PaymentUrls[loc[w].gen_id]])
         [] loc[w].response = "http_error" -> Return(w, R(500, "gateway_status"))
         [] loc[w].response = "not_json" -> Return(w, R(500, "gateway_unparseable"))
         [] loc[w].response = "rejected" -> Return(w, R(500, "gateway_rejected"))
         [] loc[w].response = "raise" ->
                Return(w, generate_payment_except("ConnectionError"))
         [] loc[w].response = "no_url" ->
                Return(w, generate_payment_except("KeyError"))
    /\ UNCHANGED <<shared, req, nreq>>
    /\ UNCHANGED signing

\* orders = load_orders(); orders.append(order_to_save); save_orders(orders)
generate_payment_insert(w) ==
    /\ pc[w] = "insert"
    /\ heap' = Append(heap, order_to_save(req[w].body, loc[w].gen_id, loc[w].payment_url))
    /\ orders' = Append(orders, Len(heap) + 1)
    /\ Goto(w, "reply", loc[w])
    /\ UNCHANGED <<sink, gateway_calls, uuid_ctr, req, nreq>>
    /\ UNCHANGED signing

\* return jsonify({"paymentUrl": payment_url})
generate_payment_return(w) ==
    /\ pc[w] = "reply"
    /\ Return(w, [status |-> 200, body |-> "paymentUrl", detail |-> <<loc[w].payment_url>>])
    /\ UNCHANGED <<shared, req, nreq>>
    /\ UNCHANGED signing

Step(w) ==
    \/ confirm_url_scan(w)
    \/ result_url_scan(w)
    \/ result_url_attach_pm(w)
    \/ result_url_attach_tn(w)
    \/ \E ok \in BOOLEAN : result_url_forward(w, ok)
    \/ result_url_filter(w)
    \/ result_url_replace(w)
    \/ \E outcome \in GatewayOutcomes : generate_payment_response(w, outcome)
    \/ generate_payment_handle(w)
    \/ generate_payment_insert(w)
    \/ generate_payment_return(w)

\* a caller can name an identifier only once it has been generated and sent out
Issued(pid) == \A n \in 1..MaxOrders : pid = uuid4(n) => n <= uuid_ctr

Begin(w) ==
    \/ \E c \in ConfirmCalls : Issued(c[2].pid) /\ confirm_url_begin(w, c[1], c[2])
    \/ \E c \in ResultCalls : Issued(c[2].pid) /\ result_url_begin(w, c[1], c[2])
    \/ \E body \in GenBodies : generate_payment_begin(w, body)

\* requests are handled by concurrent threads
Next == \E w \in Workers : Begin(w) \/ Step(w)

Spec == Init /\ [][Next]_vars

\* requests are handled one at a time
Quiet == \A w \in Workers : pc[w] \in {"idle", "done"}
NextSeq == \E w \in Workers : (Quiet /\ Begin(w)) \/ Step(w)

SpecSeq == Init /\ [][NextSeq]_vars

\* one /generate_payment request with any body
NextGen ==
    \/ nreq = 0 /\ \E body \in GenBodiesAll : generate_payment_begin(1, body)
    \/ \E outcome \in GatewayOutcomes : generate_payment_response(1, outcome)
    \/ generate_payment_handle(1)
    \/ generate_payment_insert(1)
    \/ generate_payment_return(1)

SpecGen == Init /\ [][NextGen]_vars

\* one /generate_payment request of a valid order, totalAmount and quantity varying
NextPrice ==
    \/ nreq = 0 /\ \E t \in PriceTotals, q \in PriceQuantities :
            generate_payment_begin(1, [OrderHome EXCEPT !.totalAmount = t, !.quantity = q])
    \/ \E outcome \in GatewayOutcomes : generate_payment_response(1, outcome)
    \/ generate_payment_handle(1)
    \/ generate_payment_insert(1)
    \/ generate_payment_return(1)

SpecPrice == Init /\ [][NextPrice]_vars

\* generate_signature applied to any message
InitSign ==
    /\ orders = <<>> /\ heap = <<>> /\ sink = <<>>
    /\ gateway_calls = 0 /\ uuid_ctr = 0 /\ nreq = 0
    /\ pc = [w \in Workers |-> "idle"]
    /\ req = [w \in Workers |-> NoReq]
    /\ loc = [w \in Workers |-> Loc0]
    /\ resp = [w \in Workers |-> NoResp]
    /\ sign_payload \in SignMessages
    /\ sign_digest = NoDigest

sign ==
    /\ sign_digest = NoDigest
    /\ sign_digest' = generate_signature(sign_payload, JKO_PAY_SECRET_KEY)
    /\ UNCHANGED <<shared, pc, req, loc, resp, nreq, sign_payload>>

NextSign == sign

SpecSign == InitSign /\ [][NextSign]_vars

\* three orders have been generated one after the other, and the gateway's success
\* callbacks for the first and the last of them now arrive on three threads
RaceWorkers == {1, 2, 3}
RaceOrders == 3
RaceCalls == {<<ALLOWED_IP, Body(uuid4(n), "0", "T1")>> : n \in {1, RaceOrders}}

InitRace ==
    /\ heap = [n \in 1..RaceOrders |->
                order_to_save(OrderClientId, uuid4(n), PaymentUrls[uuid4(n)])]
    /\ orders = [n \in 1..RaceOrders |-> n]
    /\ sink = <<>>
    /\ gateway_calls = RaceOrders
    /\ uuid_ctr = RaceOrders
    /\ pc = [w \in RaceWorkers |-> "idle"]
    /\ req = [w \in RaceWorkers |-> NoReq]
    /\ loc = [w \in RaceWorkers |-> Loc0]
    /\ resp = [w \in RaceWorkers |-> NoResp]
    /\ nreq = 0
    /\ sign_payload = JNone
    /\ sign_digest = NoDigest

NextRace ==
    \E w \in RaceWorkers :
        \/ \E c \in RaceCalls : result_url_begin(w, c[1], c[2])
        \/ result_url_scan(w)
        \/ result_url_attach_pm(w)
        \/ result_url_attach_tn(w)
        \/ \E ok \in BOOLEAN : result_url_forward(w, ok)
        \/ result_url_filter(w)
        \/ result_url_replace(w)

SpecRace == InitRace /\ [][NextRace]_vars

\* ====================================================================== claims
\* w takes a step
Moved(w) == pc'[w] # pc[w] \/ loc'[w] # loc[w] \/ req'[w] # req[w]
\* the sink calls made while handling request rid / made for order pid
SinkCallsOf(rid) == {i \in DOMAIN sink : sink[i].rid = rid}
SinkCallsFor(pid) == {i \in DOMAIN sink : sink[i].order.platform_order_id = pid}
\* an allowed caller's request with a JSON object body
AllowedCallback(r) ==
    r.route \in {"confirm_url", "result_url"} /\ r.ip \in JKO_UAT_IPS /\ r.body.shape = "obj"
IsFinalize(r, pid) ==
    r.route = "result_url" /\ AllowedCallback(r) /\ r.body.pid = pid /\ r.body.status = "0"

\* C1: of two /result_url callbacks with the same platform_order_id and status 0
\* for a pending order, exactly one forwards the order to the sink and removes it and
\* the other answers 404; the sink is called exactly once for that order.
C1_ExactlyOneFinalizes ==
    \A pid \in CallbackIds :
        /\ Cardinality(SinkCallsFor(pid)) <= 1
        /\ \A w1, w2 \in Workers :
            (/\ w1 # w2
             /\ pc[w1] = "done" /\ IsFinalize(req[w1], pid)
             /\ pc[w2] = "done" /\ IsFinalize(req[w2], pid)
             /\ SinkCallsFor(pid) # {})
            => {resp[w1].status, resp[w2].status} = {200, 404}

C2_Act ==
    \A w \in Workers :
        (Moved(w) /\ req'[w].route = "result_url" /\ req'[w].body.status # "0")
        => /\ orders' = orders /\ heap' = heap /\ sink' = sink
           /\ (/\ pc[w] = "result_scan"
               /\ loc[w].idx < Len(orders)
               /\ heap[orders[loc[w].idx + 1]].platform_order_id = req[w].body.pid)
              => (pc'[w] = "done" /\ resp'[w] = R(400, "confirm_failed"))
\* C2: a /result_url callback whose status is not 0 (or is absent) changes neither
\* the list, nor any order dict, nor the sink in any of its steps, and answers 400
\* "confirmation failed" when its lookup finds the order.
C2_NonSuccessLeavesOrder == [][C2_Act]_vars

\* C2 witness: a callback was answered 400 for an order that is still in the list
\* with nothing attached
C2_Witness ==
    \E w \in Workers :
        /\ pc[w] = "done" /\ req[w].route = "result_url"
        /\ resp[w] = R(400, "confirm_failed")
        /\ \E i \in DOMAIN orders :
            /\ heap[orders[i]].platform_order_id = req[w].body.pid
            /\ heap[orders[i]].paymentMethod = AbsentKey
            /\ heap[orders[i]].tradeNo = AbsentKey

C3_Inv ==
    /\ \A i \in DOMAIN sink :
        sink[i].order.paymentMethod = "jkopay" /\ sink[i].order.tradeNo # AbsentKey
    /\ \A w \in Workers :
        req[w].route = "result_url" =>
            /\ pc[w] \in {"result_scan", "attach_pm", "attach_tn", "forward"}
                => SinkCallsOf(req[w].rid) = {}
            /\ (pc[w] \in {"filter", "replace"} \/ resp[w].body = "success")
                => Cardinality(SinkCallsOf(req[w].rid)) = 1
C3_Act ==
    \A w \in Workers :
        (Moved(w) /\ req'[w].route = "result_url")
        => /\ orders' # orders => pc[w] = "replace"
           /\ resp'[w].body = "success" => pc[w] = "replace"
           /\ pc[w] = "replace"
                => /\ pc'[w] = "done" /\ resp'[w] = R(200, "success")
                   /\ \A i \in DOMAIN orders' :
                        heap'[orders'[i]].platform_order_id # req[w].body.pid
\* C3: a /result_url handler with status 0 that found its order attaches
\* paymentMethod and tradeNo, then makes exactly one sink call, then replaces the
\* list by one without the identifier and answers success; it changes the list in
\* no earlier step, and does so whether the sink call returned or raised.
C3_AttachForwardRemove == []C3_Inv /\ [][C3_Act]_vars

\* C3 witness: the sink call raised, the order is gone and the answer is success
C3_Witness ==
    \E w \in Workers :
        /\ pc[w] = "done" /\ resp[w] = R(200, "success")
        /\ \E i \in SinkCallsOf(req[w].rid) : ~sink[i].ok
        /\ ~InStore(req[w].body.pid)

\* a /result_url callback for an order that an earlier request has forwarded
C4_Retry(r) ==
    /\ r.route = "result_url" /\ AllowedCallback(r)
    /\ \E i \in DOMAIN sink :
        sink[i].order.platform_order_id = r.body.pid /\ sink[i].rid < r.rid
C4_Inv ==
    \A w \in Workers :
        C4_Retry(req[w])
        => /\ pc[w] \in {"result_scan", "done"}
           /\ pc[w] = "done" => resp[w] = R(404, "not_found")
           /\ SinkCallsOf(req[w].rid) = {}
C4_Act ==
    \A w \in Workers :
        (Moved(w) /\ C4_Retry(req'[w]))
        => orders' = orders /\ heap' = heap /\ sink' = sink

\* C4: with requests handled one after the other, a /result_url callback for an
\* order that an earlier callback has finalized answers 404, makes no sink call
\* and changes neither the list nor any order, whatever its status.
C4_RetryNotFound == []C4_Inv /\ [][C4_Act]_vars

\* C4 witness: a retry with status 0 was answered 404
C4_Witness ==
    \E w \in Workers :
        /\ pc[w] = "done" /\ C4_Retry(req[w]) /\ req[w].body.status = "0"
        /\ resp[w] = R(404, "not_found")

C5_Inv ==
    /\ \A w \in Workers :
        (req[w].route \in {"confirm_url", "result_url"} /\ req[w].ip \notin JKO_UAT_IPS)
        => pc[w] = "done" /\ resp[w] = R(403, "forbidden")
    /\ \A i \in DOMAIN sink : sink[i].ip \in JKO_UAT_IPS
C5_Act ==
    /\ \A w \in Workers :
        (/\ Moved(w)
         /\ req'[w].route \in {"confirm_url", "result_url"}
         /\ req'[w].ip \notin JKO_UAT_IPS)
        => UNCHANGED shared
    /\ Len(orders') < Len(orders)
        => \E w \in Workers : pc[w] = "replace" /\ req[w].ip \in JKO_UAT_IPS

\* C5: a /confirm_url or /result_url request from an address outside JKO_UAT_IPS
\* is answered 403 at once whatever its payload, changes nothing, and every sink
\* call and every removal is made for a caller inside JKO_UAT_IPS.
C5_ForbiddenCallerChangesNothing == []C5_Inv /\ [][C5_Act]_vars

\* C5 witness: both routes answered 403, the /result_url one for a stored order
\* with status 0
C5_Witness ==
    \E w1, w2 \in Workers :
        /\ req[w1].route = "confirm_url" /\ resp[w1].status = 403
        /\ req[w2].route = "result_url" /\ resp[w2].status = 403
        /\ req[w2].body.status = "0" /\ InStore(req[w2].body.pid)
        /\ sink = <<>>

C6_Inv ==
    \A w \in Workers :
        (pc[w] = "done" /\ AllowedCallback(req[w]))
        => /\ req[w].body.pid \in {NoneVal, EmptyStr}
                => /\ resp[w].status = 400
                   /\ req[w].route = "result_url" => resp[w].body = "missing_id"
           /\ resp[w].status = 404 => req[w].body.pid \notin {NoneVal, EmptyStr}
           /\ (/\ req[w].body.pid \notin {NoneVal, EmptyStr}
               /\ \A h \in DOMAIN heap : heap[h].platform_order_id # req[w].body.pid)
                => resp[w].status = 404
           /\ (resp[w].status = 404 \/ req[w].body.pid \in {NoneVal, EmptyStr})
                => SinkCallsOf(req[w].rid) = {}
C6_Act ==
    \A w \in Workers :
        (/\ Moved(w)
         /\ req'[w].route \in {"confirm_url", "result_url"}
         /\ pc[w] \in {"idle", "done", "confirm_scan", "result_scan"})
        => UNCHANGED shared

\* C6: for an allowed caller a missing or empty identifier is answered 400 and an
\* identifier that no order has is answered 404, whatever the status; 404 is never
\* the answer to a missing identifier; neither makes a sink call, and no step up to
\* and including the lookup changes the list, the orders or the sink.
C6_MissingIs400UnknownIs404 == []C6_Inv /\ [][C6_Act]_vars

\* C6 witness: status 0 with an empty identifier got 400, status 0 with an unknown
\* identifier got 404
C6_Witness ==
    \E w1, w2 \in Workers :
        /\ pc[w1] = "done" /\ req[w1].route = "result_url" /\ AllowedCallback(req[w1])
        /\ req[w1].body.pid = EmptyStr /\ req[w1].body.status = "0"
        /\ resp[w1] = R(400, "missing_id")
        /\ pc[w2] = "done" /\ req[w2].route = "result_url" /\ AllowedCallback(req[w2])
        /\ req[w2].body.status = "0"
        /\ \A h \in DOMAIN heap : heap[h].platform_order_id # req[w2].body.pid
        /\ resp[w2] = R(404, "not_found")

C7_Act ==
    \A w \in Workers :
        (Moved(w) /\ req'[w].route = "confirm_url")
        => /\ UNCHANGED shared
           /\ (pc[w] = "confirm_scan" /\ pc'[w] = "done")
                => resp'[w] = IF InStore(req[w].body.pid) THEN R(200, "valid")
                              ELSE R(404, "invalid")

C10_Required(b) ==
    {"totalAmount", "quantity", "name", "email", "phone", "shipping", "payment", "address"}
        \cup (IF b.shipping.t = "str" /\ b.shipping.s = "7-11"
              THEN {"storeInfo"} ELSE {"city", "district"})
C10_Lacks(b) ==
    {f \in C10_Required(b) :
        b[f].t = "absent" \/ (b[f].t = "num" /\ b[f].n = 0) \/ (b[f].t = "str" /\ b[f].s = "")}
GenDone(w) == pc[w] = "done" /\ req[w].route = "generate_payment" /\ req[w].body.shape = "obj"

\* a request with one of the validation failures C8 lists
C8_Fails(b) ==
    \/ C10_Lacks(b) # {}
    \/ PyIntOk(b.totalAmount) /\ PyInt(b.totalAmount) <= 0
    \/ PyIntOk(b.quantity) /\ PyInt(b.quantity) <= 0
    \/ PyIntOk(b.totalAmount) /\ PyInt(b.totalAmount) > 1000000
    \/ b.payment # Str("jkopay")

\* C8: every /generate_payment request with a validation failure (a required field
\* missing or empty, totalAmount or quantity not positive, totalAmount above
\* 1,000,000, a payment method other than jkopay) is answered 400, with no gateway
\* call and no order stored.
C8_ValidationFailureIs400 ==
    \A w \in Workers :
        (GenDone(w) /\ C8_Fails(req[w].body))
        => resp[w].status = 400 /\ gateway_calls = 0 /\ orders = <<>>

\* C9: a /generate_payment request whose totalAmount or quantity is present and
\* non-empty but is no integer is answered 400, with no gateway call and no order
\* stored.
C9_UnparseableIs400 ==
    \A w \in Workers :
        (/\ GenDone(w)
         /\ {"totalAmount", "quantity"} \cap C10_Lacks(req[w].body) = {}
         /\ ~PyIntOk(req[w].body.totalAmount) \/ ~PyIntOk(req[w].body.quantity))
        => resp[w].status = 400 /\ gateway_calls = 0 /\ orders = <<>>

\* C10: the request is answered "missing fields" exactly when a required field
\* (chosen by shipping) is absent or empty, and the list it reports holds exactly
\* those fields, each once, with status 400.
C10_MissingListExact ==
    \A w \in Workers :
        GenDone(w)
        => /\ resp[w].body = "missing_fields" <=> C10_Lacks(req[w].body) # {}
           /\ resp[w].body = "missing_fields"
                => /\ resp[w].status = 400
                   /\ {resp[w].detail[i] : i \in DOMAIN resp[w].detail}
                        = C10_Lacks(req[w].body)
                   /\ Len(resp[w].detail) = Cardinality(C10_Lacks(req[w].body))

\* C10 witness: a 7-11 request lacking address and another field reports both,
\* and no city or district
C10_Witness ==
    \E w \in Workers :
        /\ GenDone(w) /\ req[w].body.shipping = Str("7-11")
        /\ resp[w].body = "missing_fields"
        /\ Len(resp[w].detail) = 2
        /\ \E i \in DOMAIN resp[w].detail : resp[w].detail[i] = "address"
        /\ req[w].body.city = Absent

\* the handler has built its gateway message
MessageBuilt(w) == req[w].route = "generate_payment" /\ pc[w] \in {"await", "handle", "insert", "reply"}
\* the unit prices of the line items of a message
UnitPrices(m) ==
    [j \in DOMAIN Get(m, "products").l |-> Get(Get(m, "products").l[j], "unit_price").n]
RECURSIVE SumSeq(_)
SumSeq(q) == IF q = <<>> THEN 0 ELSE Head(q) + SumSeq(Tail(q))

\* C11: for the positive totalAmount and quantity of an accepted request the message
\* has exactly quantity line items, their unit prices sum to totalAmount, every item
\* but the last costs totalAmount div quantity and the last that plus totalAmount
\* mod quantity (so at most one differs from the quotient), unit_final_price equals
\* unit_price, and total_price, final_price and unredeem all equal totalAmount.
C11_PriceSplitExact ==
    \A w \in Workers :
        MessageBuilt(w) =>
            LET total == PyInt(req[w].body.totalAmount)
                qty == PyInt(req[w].body.quantity)
                m == loc[w].data
                ps == Get(m, "products").l
                up == UnitPrices(m)
            IN  /\ total > 0 /\ qty > 0
                /\ Len(ps) = qty
                /\ SumSeq(up) = total
                /\ \A j \in 1..(qty - 1) : up[j] = total \div qty
                /\ up[qty] = (total \div qty) + (total % qty)
                /\ Cardinality({j \in 1..qty : up[j] # total \div qty}) <= 1
                /\ \A j \in 1..qty :
                    /\ Get(ps[j], "unit_final_price") = Get(ps[j], "unit_price")
                    /\ Get(ps[j], "unit_count") = JNum(1)
                /\ Get(m, "total_price") = JNum(total)
                /\ Get(m, "final_price") = JNum(total)
                /\ Get(m, "unredeem") = JNum(total)

\* C11 witness: 100 and 3 give 33, 33, 34
C11_Witness ==
    \E w \in Workers :
        /\ MessageBuilt(w)
        /\ req[w].body.totalAmount = Num(100) /\ req[w].body.quantity = Num(3)
        /\ UnitPrices(loc[w].data) = <<33, 33, 34>>

\* C20: every line item of every message sent to the gateway has a unit price of at
\* least 1, for every accepted totalAmount and quantity, quantity greater than
\* totalAmount included.
C20_UnitPricePositive ==
    \A w \in Workers :
        MessageBuilt(w) =>
            \A j \in DOMAIN UnitPrices(loc[w].data) : UnitPrices(loc[w].data)[j] >= 1

C12_Act ==
    \A w \in Workers :
        (Moved(w) /\ req'[w].route = "generate_payment")
        => /\ gateway_calls' # gateway_calls
                => /\ pc[w] \in {"idle", "done"} /\ pc'[w] = "await"
                   /\ gateway_calls' = gateway_calls + 1
           /\ orders' # orders => pc[w] = "insert"
           /\ pc[w] = "handle"
                => /\ orders' = orders /\ heap' = heap
                   /\ IF loc[w].response = "ok"
                      THEN pc'[w] = "insert" /\ loc'[w].payment_url # NoneVal
                      ELSE pc'[w] = "done" /\ resp'[w].status = 500
           /\ pc[w] = "insert"
                => /\ loc[w].response = "ok"
                   /\ Len(heap') = Len(heap) + 1
                   /\ orders' = Append(orders, Len(heap'))
                   /\ heap'[Len(heap')].platform_order_id = loc[w].gen_id
                   /\ heap'[Len(heap')].payment_url = loc[w].payment_url
                   /\ pc'[w] = "reply"
           /\ pc[w] = "reply"
                => /\ resp'[w].status = 200 /\ resp'[w].body = "paymentUrl"
                   /\ resp'[w].detail = <<loc[w].payment_url>>
                   /\ \E h \in DOMAIN heap :
                        /\ heap[h].platform_order_id = loc[w].gen_id
                        /\ heap[h].payment_url = loc[w].payment_url

\* C12: a /generate_payment handler calls the gateway at most once, in the step
\* that sends the message, and never again; it appends an order exactly when the
\* reply was 200 with a JSON body, result "000" and a payment URL; after any other
\* reply or a transport exception it answers 500 and leaves the list unchanged; the
\* appended order carries the generated identifier and the URL that is returned.
C12_SingleCallStoreOnSuccess == [][C12_Act]_vars

\* C12 witness: one request was rejected by the gateway and stored nothing, another
\* succeeded and its order carries the URL it returned
C12_Witness ==
    \E w1, w2 \in Workers :
        /\ pc[w1] = "done" /\ resp[w1] = R(500, "gateway_rejected")
        /\ pc[w2] = "done" /\ req[w2].route = "generate_payment" /\ resp[w2].status = 200
        /\ gateway_calls = 2 /\ Len(orders) = 1
        /\ <<heap[orders[1]].payment_url>> = resp[w2].detail

\* the identifiers generated so far
Generated == {uuid4(n) : n \in 1..uuid_ctr}

\* C13: no two entries of the list have the same platform_order_id, in every state
\* of every interleaving of the requests, and every stored identifier is one the
\* server generated, also when the request body carries a platform_order_id.
C13_UniqueIds ==
    /\ \A i, j \in DOMAIN orders :
        heap[orders[i]].platform_order_id = heap[orders[j]].platform_order_id => i = j
    /\ \A h \in DOMAIN heap : heap[h].platform_order_id \in Generated

\* the canonical fields of a message with their values, and their place in the list
Keys(m) == {m.l[i].k : i \in DOMAIN m.l}
CanonicalKeys == {ordered_fields[i] : i \in DOMAIN ordered_fields}
CanonicalPart(m) == [k \in Keys(m) \cap CanonicalKeys |-> Get(m, k)]
Rank(k) == CHOOSE i \in DOMAIN ordered_fields : ordered_fields[i] = k

\* C14: the form that is signed holds exactly the canonical fields present in the
\* message, with the message's values, in the order of the canonical list whatever
\* the insertion order; so signing again gives the same digest, messages that agree
\* on their canonical fields have the same digest, and messages with the same
\* canonical fields and a different value for one of them have different signed forms.
C14_CanonicalForm ==
    sign_digest # NoDigest =>
        LET c == ordered_payload(sign_payload) IN
        /\ sign_digest.str = json_dumps(c)
        /\ Keys(c) = Keys(sign_payload) \cap CanonicalKeys
        /\ \A i \in DOMAIN c.l : c.l[i].v = Get(sign_payload, c.l[i].k)
        /\ \A i, j \in DOMAIN c.l : i < j => Rank(c.l[i].k) < Rank(c.l[j].k)
        /\ sign_digest = generate_signature(sign_payload, JKO_PAY_SECRET_KEY)
        /\ \A m \in SignMessages :
            /\ CanonicalPart(m) = CanonicalPart(sign_payload)
                => generate_signature(m, JKO_PAY_SECRET_KEY) = sign_digest
            /\ (/\ Keys(m) \cap CanonicalKeys = Keys(sign_payload) \cap CanonicalKeys
                /\ CanonicalPart(m) # CanonicalPart(sign_payload))
                => payload_str(m) # sign_digest.str

\* C14 witness: a signed message with a non-canonical field first and its canonical
\* fields inserted against the canonical order
C14_Witness ==
    /\ sign_digest # NoDigest
    /\ Len(sign_payload.l) = 3
    /\ sign_payload.l[1].k = "confirm_url"
    /\ sign_payload.l[2].k = "total_price"
    /\ sign_payload.l[3].k = "store_id"

\* C15: whatever the body of a request is and whatever the outbound calls do, a
\* handler that has started can always take its next step, answers nothing before
\* it ends, and ends with one response whose status is 200, 400, 403, 404 or 500.
C15_NoUnhandledFault ==
    \A w \in Workers :
        /\ pc[w] = "done" => resp[w].status \in {200, 400, 403, 404, 500}
        /\ pc[w] \notin {"idle", "done"} => resp[w] = NoResp /\ ENABLED Step(w)

\* C15 witness: a callback whose body is no object and a payment request whose
\* gateway call raised were both answered 500
C15_Witness ==
    \E w1, w2 \in Workers :
        /\ pc[w1] = "done" /\ req[w1].route = "result_url" /\ req[w1].ip \in JKO_UAT_IPS
        /\ req[w1].body.shape = "bad" /\ resp[w1].status = 500
        /\ pc[w2] = "done" /\ req[w2].route = "generate_payment"
        /\ resp[w2] = generate_payment_except("ConnectionError")

\* the handler's except clause produced the response of w
FaultResponse(w) ==
    /\ pc[w] = "done" /\ resp[w].status = 500
    /\ \/ req[w].route = "confirm_url"
       \/ req[w].route \in {"result_url", "generate_payment"} /\ resp[w].body = "server_error"

\* C16: two requests to the same route that both fail with an internal fault get
\* the same response, whatever the two faults are, on /generate_payment as on the
\* two callback routes.
C16_GenericFaultMessage ==
    \A w1, w2 \in Workers :
        (FaultResponse(w1) /\ FaultResponse(w2) /\ req[w1].route = req[w2].route)
        => resp[w1] = resp[w2]

C17_Act ==
    \A w \in Workers :
        (Moved(w) /\ req[w].route = "result_url" /\ pc[w] = "replace")
        => \A i \in DOMAIN orders :
            heap[orders[i]].platform_order_id # req[w].body.pid
            => \E j \in DOMAIN orders' : orders'[j] = orders[i]
\* C17: the step of /result_url that removes an order takes out of the list only
\* the entries with its identifier: every other entry that is in the list when the
\* step is taken, an order inserted meanwhile by /generate_payment included, is in
\* the list after it.
C17_RemovalKeepsOthers == [][C17_Act]_vars

\* the list holds the order dict h
Stored(h) == \E i \in DOMAIN orders : orders[i] = h

\* C18: an inserted order for which no success callback has been processed (its
\* dict has not been forwarded to the sink) is in the list.
C18_LeavesOnlyByFinalization ==
    \A h \in DOMAIN heap : SinkCallsFor(heap[h].platform_order_id) = {} => Stored(h)

C19_Act ==
    \A w \in Workers :
        /\ (/\ Moved(w) /\ req[w].route = "generate_payment" /\ pc[w] = "reply"
            /\ SinkCallsFor(loc[w].gen_id) = {})
            => InStore(loc[w].gen_id)
        /\ (/\ Moved(w) /\ pc[w] \in {"confirm_scan", "result_scan"}
            /\ \E h \in DOMAIN heap : heap[h].platform_order_id = req[w].body.pid
            /\ SinkCallsFor(req[w].body.pid) = {})
            => resp'[w].status # 404
\* C19: when /generate_payment returns the payment URL of an order that has not
\* been finalized, the list holds the order; and a callback for an inserted order
\* that has not been finalized is not answered 404.
C19_UrlAfterInsert == [][C19_Act]_vars
====
